---- MODULE Spec2Model ----
(***************************************************************************)
(* Frequency-domain filter masks of the ipcv package                       *)
(* (filter_lowpass, filter_highpass, filter_bandreject, filter_bandpass,   *)
(* filter_notchreject, filter_notchpass) and their application to an image *)
(* (frequency_filter).                                                     *)
(*                                                                         *)
(* Arrays are functions over 0-based index pairs <<row, column>>.          *)
(* A distance grid carries the SQUARE of each distance (an integer): the   *)
(* distance itself, sqrt(d2), is irrational in general.  Every comparison  *)
(* and every formula of the code is evaluated exactly on d2.               *)
(* Mask weights are extended reals: an exact rational, +/-inf, NaN (the    *)
(* IEEE-754 outcomes of numpy's division by zero) or a finite irrational   *)
(* number strictly between 0 and 1, kept as the term that defines it.      *)
(***************************************************************************)
EXTENDS Integers, Sequences, FiniteSets, TLC

VARIABLES call, ret

vars == <<call, ret>>

\* ------------------------------------------------------------------ bounds
MaxDim == 4
MaxNotchDim == 3
MaxParam == 2
MaxRadius == 1
MaxOrder == 2
MaxOffset == 1
MaxBands == 2
MaxDelta == 1

\* --------------------------------------------------------- filter shapes
IPCV_IDEAL == "IDEAL"
IPCV_BUTTERWORTH == "BUTTERWORTH"
IPCV_GAUSSIAN == "GAUSSIAN"

\* ------------------------------------------------------ integer helpers
Min(a, b) == IF a <= b THEN a ELSE b
Abs(a) == IF a < 0 THEN 0 - a ELSE a
Sign(a) == IF a < 0 THEN 0 - 1 ELSE IF a = 0 THEN 0 ELSE 1

RECURSIVE Gcd(_, _)
Gcd(a, b) == IF b = 0 THEN a ELSE Gcd(b, a % b)

RECURSIVE IPow(_, _)
IPow(b, e) == IF e = 0 THEN 1 ELSE b * IPow(b, e - 1)

\* Python 2 integer division of a non-negative extent (imRows/2).
Half(n) == n \div 2

\* ------------------------------------------------- extended real values
\* [t, n, d, e]: t = "q" the rational n/d in lowest terms (d > 0);
\* t = "inf" the infinity of sign n; t = "nan"; t = "sym" a finite
\* irrational in (0,1) defined by the term e (a sequence of integers).
Q(n, d) ==
    LET g == Gcd(Abs(n), Abs(d))
        s == IF d < 0 THEN 0 - 1 ELSE 1
    IN [t |-> "q", n |-> (s * n) \div g, d |-> (s * d) \div g, e |-> <<>>]
Int2X(n) == [t |-> "q", n |-> n, d |-> 1, e |-> <<>>]
Inf(s) == [t |-> "inf", n |-> s, d |-> 0, e |-> <<>>]
NaN == [t |-> "nan", n |-> 0, d |-> 0, e |-> <<>>]
Sym(term) == [t |-> "sym", n |-> 0, d |-> 0, e |-> term]
Zero == Int2X(0)
One == Int2X(1)

IsNaN(x) == x.t = "nan"
IsInf(x) == x.t = "inf"
IsFinite(x) == x.t \in {"q", "sym"}
\* sign of an extended real that is not NaN
XSign(x) == IF x.t = "sym" THEN 1 ELSE Sign(x.n)

\* numpy division of a float by a number: x/0 is +/-inf, 0/0 is NaN.
XDivQ(an, ad, bn, bd) ==
    IF bn = 0
    THEN IF an = 0 THEN NaN ELSE Inf(Sign(an) * Sign(ad))
    ELSE Q(an * bd, ad * bn)

\* float product (0 * inf is NaN)
XMul(x, y) ==
    IF IsNaN(x) \/ IsNaN(y) THEN NaN
    ELSE IF IsInf(x) \/ IsInf(y)
         THEN IF XSign(x) * XSign(y) = 0 THEN NaN ELSE Inf(XSign(x) * XSign(y))
    ELSE IF x.t = "q" /\ y.t = "q" THEN Q(x.n * y.n, x.d * y.d)
    ELSE IF x = Zero \/ y = Zero THEN Zero
    ELSE IF x = One THEN y
    ELSE IF y = One THEN x
    ELSE Sym(<<3>> \o x.e \o y.e)

\* 1 + x, for x rational, infinite or NaN (the code never adds 1 to an
\* irrational: the sums are formed before any exp)
XAdd1(x) ==
    IF x.t = "q" THEN Q(x.d + x.n, x.d) ELSE x

\* 1 - x
XSub1(x) ==
    IF x.t = "q" THEN Q(x.d - x.n, x.d)
    ELSE IF x.t = "inf" THEN Inf(0 - x.n)
    ELSE IF x.t = "nan" THEN NaN
    ELSE Sym(<<2>> \o x.e)

\* 1 / x for x rational, infinite or NaN (1/0 is +inf, 1/inf is 0)
XRecip(x) ==
    IF x.t = "q" THEN XDivQ(1, 1, x.n, x.d)
    ELSE IF x.t = "inf" THEN Zero
    ELSE x

\* x ** k for an integer k: x ** 0 is 1 for every x, NaN and inf included.
XPowInt(x, k) ==
    IF k = 0 THEN One
    ELSE IF x.t = "nan" THEN NaN
    ELSE IF x.t = "inf"
         THEN IF k < 0 THEN Zero
              ELSE Inf(IF x.n < 0 /\ k % 2 = 1 THEN 0 - 1 ELSE 1)
    ELSE IF k > 0 THEN Q(IPow(x.n, k), IPow(x.d, k))
    ELSE XDivQ(IPow(x.d, 0 - k), 1, IPow(x.n, 0 - k), 1)

\* numpy.exp of a rational, infinite or NaN exponent
XExp(x) ==
    IF x.t = "nan" THEN NaN
    ELSE IF x.t = "inf" THEN (IF x.n < 0 THEN Zero ELSE Inf(1))
    ELSE IF x.n = 0 THEN One
    ELSE Sym(<<1, x.n, x.d>>)

\* ------------------------------------------------------------ the arrays
Pix(R, C) == (0 .. R - 1) \X (0 .. C - 1)

\* ipcv.dimensions(im): rows, columns, bands of the image
dimensions(im) == <<im.rows, im.cols, im.bands>>

\* ipcv.dist((rows, columns)): periodic corner-origin distance, squared
dist(R, C) ==
    [p \in Pix(R, C) |->
        Min(p[1], R - p[1]) * Min(p[1], R - p[1])
      + Min(p[2], C - p[2]) * Min(p[2], C - p[2])]

\* numpy.roll(a, shift, axis) of an R x C array: out[(i + shift) mod n] = a[i]
roll(a, shift, axis, R, C) ==
    [p \in Pix(R, C) |->
        IF axis = 0 THEN a[<<(p[1] - shift) % R, p[2]>>]
                    ELSE a[<<p[1], (p[2] - shift) % C>>]]

\* (mutant) the shift rounds half the extent up instead of truncating
centeredDist_roundedUp(R, C) ==
    roll(roll(dist(R, C), (R + 1) \div 2, 0, R, C), (C + 1) \div 2, 1, R, C)

\* distFilter: the distance grid rolled by imRows/2 and imColumns/2
centeredDist(R, C) ==
    roll(roll(dist(R, C), Half(R), 0, R, C), Half(C), 1, R, C)

\* comparisons of a distance sqrt(d2) with an integer threshold
DistLE(d2, thr) == thr >= 0 /\ d2 <= thr * thr
DistGT(d2, thr) == thr < 0 \/ d2 > thr * thr
DistLT(d2, thr) == thr > 0 /\ d2 < thr * thr

\* --------------------------------------------------------- filter_lowpass
\* (mutant) the Ideal branch keeps d < cutoff only, dropping the edge d = cutoff
lowpassWeight_strictEdge(d2, cutoffFrequency, order, filterShape) ==
    IF filterShape = IPCV_IDEAL
    THEN Int2X(IF DistLT(d2, cutoffFrequency) THEN 1 ELSE 0)
    ELSE IF filterShape = IPCV_BUTTERWORTH
    THEN XRecip(XAdd1(XPowInt(
             XDivQ(d2, 1, cutoffFrequency * cutoffFrequency, 1), order)))
    ELSE XExp(XDivQ(0 - d2, 1, 2 * cutoffFrequency * cutoffFrequency, 1))

\* (mutant) the Butterworth branch ignores the order: exponent 2, not 2*order
lowpassWeight_orderIgnored(d2, cutoffFrequency, order, filterShape) ==
    IF filterShape = IPCV_IDEAL
    THEN Int2X(IF DistLE(d2, cutoffFrequency) THEN 1 ELSE 0)
    ELSE IF filterShape = IPCV_BUTTERWORTH
    THEN XRecip(XAdd1(XPowInt(
             XDivQ(d2, 1, cutoffFrequency * cutoffFrequency, 1), 1)))
    ELSE XExp(XDivQ(0 - d2, 1, 2 * cutoffFrequency * cutoffFrequency, 1))

\* One element of lowPassFilter, from the element d2 of distFilter ** 2.
lowpassWeight(d2, cutoffFrequency, order, filterShape) ==
    IF filterShape = IPCV_IDEAL
    THEN LET zeros == 0
             set1 == IF DistLE(d2, cutoffFrequency) THEN 1 ELSE zeros
             set0 == IF DistGT(d2, cutoffFrequency) THEN 0 ELSE set1
         IN Int2X(set0)
    ELSE IF filterShape = IPCV_BUTTERWORTH
    THEN \* (d/c) ** (2*order) is ((d/c) ** 2) ** order
         XRecip(XAdd1(XPowInt(
             XDivQ(d2, 1, cutoffFrequency * cutoffFrequency, 1), order)))
    ELSE XExp(XDivQ(0 - d2, 1, 2 * cutoffFrequency * cutoffFrequency, 1))

filter_lowpass(im, cutoffFrequency, order, filterShape) ==
    LET imRows == dimensions(im)[1]
        imColumns == dimensions(im)[2]
        distFilter == centeredDist(imRows, imColumns)
    IN [p \in Pix(imRows, imColumns) |->
           lowpassWeight(distFilter[p], cutoffFrequency, order, filterShape)]

\* -------------------------------------------------------- filter_highpass
\* (mutant) the operands of the subtraction swapped: lowpass - 1
filter_highpass_swapped(im, cutoffFrequency, order, filterShape) ==
    LET lowPass == filter_lowpass(im, cutoffFrequency, order, filterShape)
    IN [p \in DOMAIN lowPass |-> XMul(Int2X(0 - 1), XSub1(lowPass[p]))]

filter_highpass(im, cutoffFrequency, order, filterShape) ==
    LET lowPass == filter_lowpass(im, cutoffFrequency, order, filterShape)
    IN [p \in DOMAIN lowPass |-> XSub1(lowPass[p])]

\* ------------------------------------------------------ filter_bandreject
\* (mutant) the Ideal branch keeps the inner edge d = radialCenter (d <= r)
bandrejectWeight_innerEdgeKept(d2, radialCenter, bandwidth, order, filterShape) ==
    LET diff == d2 - radialCenter * radialCenter
    IN IF filterShape = IPCV_IDEAL
       THEN Int2X(IF DistLE(d2, radialCenter) \/ DistGT(d2, radialCenter + bandwidth)
                  THEN 1 ELSE 0)
       ELSE IF filterShape = IPCV_BUTTERWORTH
       THEN XRecip(XAdd1(XMul(
                XDivQ(d2 * bandwidth * bandwidth, 1, diff * diff, 1),
                Int2X(order))))
       ELSE XSub1(XExp(XMul(Q(0 - 1, 2),
                XDivQ(diff * diff, 1, d2 * bandwidth * bandwidth, 1))))

\* The square of the divisor of the Butterworth branch
\* (distFilter ** 2 - radialCenter ** 2) and of the Gaussian branch
\* (distFilter * bandwidth); the code divides by it as it stands.
bandrejectDenominator2(d2, radialCenter, bandwidth, filterShape) ==
    LET diff == d2 - radialCenter * radialCenter
    IN IF filterShape = IPCV_BUTTERWORTH THEN diff * diff
       ELSE d2 * bandwidth * bandwidth

\* One element of bandRejectFilter.  The code squares the quotient, so the
\* model forms the square of the quotient from d2 directly.
bandrejectWeight(d2, radialCenter, bandwidth, order, filterShape) ==
    LET diff == d2 - radialCenter * radialCenter
        den2 == bandrejectDenominator2(d2, radialCenter, bandwidth, filterShape)
    IN IF filterShape = IPCV_IDEAL
       THEN LET zeros == 0
                inner == IF DistLT(d2, radialCenter) THEN 1 ELSE zeros
                outer == IF DistGT(d2, radialCenter + bandwidth) THEN 1 ELSE inner
            IN Int2X(outer)
       ELSE IF filterShape = IPCV_BUTTERWORTH
       THEN XRecip(XAdd1(XMul(
                XDivQ(d2 * bandwidth * bandwidth, 1, den2, 1),
                Int2X(order))))
       ELSE XSub1(XExp(XMul(Q(0 - 1, 2), XDivQ(diff * diff, 1, den2, 1))))

filter_bandreject(im, radialCenter, bandwidth, order, filterShape) ==
    LET imRows == dimensions(im)[1]
        imColumns == dimensions(im)[2]
        distFilter == centeredDist(imRows, imColumns)
    IN [p \in Pix(imRows, imColumns) |->
           bandrejectWeight(distFilter[p], radialCenter, bandwidth, order, filterShape)]

\* -------------------------------------------------------- filter_bandpass
filter_bandpass(im, radialCenter, bandwidth, order, filterShape) ==
    LET bandReject == filter_bandreject(im, radialCenter, bandwidth, order, filterShape)
    IN [p \in DOMAIN bandReject |-> XSub1(bandReject[p])]

\* ----------------------------------------------------- filter_notchreject
IsSquare(n) == \E s \in 0 .. n : s * s = n
ISqrt(n) == CHOOSE s \in 0 .. n : s * s = n

\* nextNotchRejectFilter at one pixel, Butterworth: p2 is (D1*D2) ** 2.
notchButterworth(p2, radius, order) ==
    IF IsSquare(p2)
    THEN XRecip(XAdd1(XPowInt(XDivQ(radius * radius, 1, ISqrt(p2), 1), order)))
    ELSE IF order % 2 = 0
    THEN XRecip(XAdd1(XPowInt(
             XDivQ(radius * radius * radius * radius, 1, p2, 1), order \div 2)))
    ELSE IF radius = 0
    THEN XRecip(XAdd1(XPowInt(Zero, order)))
    ELSE Sym(<<4, radius, p2, order>>)

\* nextNotchRejectFilter at one pixel, Gaussian
notchGaussian(p2, radius) ==
    IF IsSquare(p2)
    THEN XSub1(XExp(XDivQ(0 - ISqrt(p2), 2, radius * radius, 1)))
    ELSE IF radius = 0
    THEN XSub1(XExp(Inf(0 - 1)))
    ELSE Sym(<<5, radius, p2>>)

\* D1 and D2 (squared): the distance grid rolled to the notch and to its
\* conjugate.
notchD1(distFilter, imRows, imColumns, ctr) ==
    roll(roll(distFilter, Half(imRows) - ctr[1], 1, imRows, imColumns),
         Half(imColumns) - ctr[2], 0, imRows, imColumns)
notchD2(distFilter, imRows, imColumns, ctr) ==
    roll(roll(distFilter, Half(imRows) + ctr[1], 1, imRows, imColumns),
         Half(imColumns) + ctr[2], 0, imRows, imColumns)

\* productOfDs (squared) as the division finds it.  The statement
\* productOfDs[productOfDs == 0] == 1e-10 compares and assigns nothing, so
\* the product is unchanged, zeros included.
productOfDs(p2) == p2

\* One pass of the loop body over the running mask, for notch number k
\* (1-based here, range(len(notchCenter)) in the code).
notchStep(mask, distFilter, imRows, imColumns, ctr, radius, order, filterShape) ==
    LET D1 == notchD1(distFilter, imRows, imColumns, ctr)
        D2 == notchD2(distFilter, imRows, imColumns, ctr)
    IN [p \in Pix(imRows, imColumns) |->
          IF filterShape = IPCV_IDEAL
          THEN LET a == IF DistLE(D1[p], radius) THEN Zero ELSE mask[p]
               IN IF DistLE(D2[p], radius) THEN Zero ELSE a
          ELSE IF filterShape = IPCV_BUTTERWORTH
          THEN XMul(mask[p],
                    notchButterworth(productOfDs(D1[p] * D2[p]), radius, order))
          ELSE XMul(mask[p], notchGaussian(D1[p] * D2[p], radius))]

\* The loop: notchRadius[center] raises IndexError when the radii run out.
RECURSIVE notchLoop(_, _, _, _, _, _, _, _, _)
notchLoop(mask, k, distFilter, imRows, imColumns, notchCenter, notchRadius, order, filterShape) ==
    IF k > Len(notchCenter) THEN [error |-> "", mask |-> mask]
    ELSE IF k > Len(notchRadius) THEN [error |-> "IndexError", mask |-> mask]
    ELSE notchLoop(
             notchStep(mask, distFilter, imRows, imColumns, notchCenter[k],
                       notchRadius[k], order, filterShape),
             k + 1, distFilter, imRows, imColumns, notchCenter, notchRadius,
             order, filterShape)

Returned(m) == [kind |-> "mask", value |-> m]
Raised(e) == [kind |-> "error", value |-> e]

filter_notchreject(im, notchCenter, notchRadius, order, filterShape) ==
    LET imRows == dimensions(im)[1]
        imColumns == dimensions(im)[2]
        ones == [p \in Pix(imRows, imColumns) |-> One]
        distFilter == centeredDist(imRows, imColumns)
        done == notchLoop(ones, 1, distFilter, imRows, imColumns, notchCenter,
                          notchRadius, order, filterShape)
    IN IF done.error # "" THEN Raised(done.error)
       ELSE Returned(roll(roll(done.mask, Half(imRows), 0, imRows, imColumns),
                          Half(imColumns), 1, imRows, imColumns))

\* ------------------------------------------------------- filter_notchpass
filter_notchpass(im, notchCenter, notchRadius, order, filterShape) ==
    LET notchReject == filter_notchreject(im, notchCenter, notchRadius, order, filterShape)
    IN IF notchReject.kind = "error" THEN notchReject
       ELSE Returned([p \in DOMAIN notchReject.value |-> XSub1(notchReject.value[p])])

\* ------------------------------------------------------- frequency_filter
\* Complex numbers are pairs <<re, im>> of integers: for extents 1, 2 and 4
\* every DFT twiddle factor is one of 1, -i, -1, i, so the transforms of an
\* integer image under an integer mask are exact.  ifft2 yields numerators
\* over the denominator rows * columns.
CAdd(a, b) == <<a[1] + b[1], a[2] + b[2]>>
CMul(a, b) == <<a[1] * b[1] - a[2] * b[2], a[1] * b[2] + a[2] * b[1]>>

RECURSIVE CSum(_, _)
CSum(f, S) ==
    IF S = {} THEN <<0, 0>>
    ELSE LET x == CHOOSE x \in S : TRUE IN CAdd(f[x], CSum(f, S \ {x}))

\* exp(sgn * 2 pi i k / n) for n in {1, 2, 4}
Twiddle(n, k, sgn) ==
    LET q == ((k * (4 \div n)) * sgn) % 4
    IN IF q = 0 THEN <<1, 0>>
       ELSE IF q = 1 THEN <<0, 1>>
       ELSE IF q = 2 THEN <<0 - 1, 0>>
       ELSE <<0, 0 - 1>>

\* the unnormalised 2-D DFT with exponent sign sgn
dft2(x, R, C, sgn) ==
    [q \in Pix(R, C) |->
        CSum([p \in Pix(R, C) |->
                 CMul(x[p], CMul(Twiddle(R, q[1] * p[1], sgn),
                                 Twiddle(C, q[2] * p[2], sgn)))],
             Pix(R, C))]
fft2(x, R, C) == dft2(x, R, C, 0 - 1)
\* (mutant) the inverse transform run with the forward exponent sign
ifft2_forwardSign(x, R, C) == dft2(x, R, C, 0 - 1)
\* numpy.fft.ifft2 times rows * columns
ifft2(x, R, C) == dft2(x, R, C, 1)

fftshift(x, R, C) == roll(roll(x, R \div 2, 0, R, C), C \div 2, 1, R, C)
ifftshift(x, R, C) == roll(roll(x, 0 - (R \div 2), 0, R, C), 0 - (C \div 2), 1, R, C)

\* numpy broadcasting of an R x C array against an r x c array
Broadcastable(R, C, r, c) ==
    (R = r \/ R = 1 \/ r = 1) /\ (C = c \/ C = 1 \/ c = 1)
Max(a, b) == IF a >= b THEN a ELSE b
\* a slot of R x C accepts a value of shape r x c
Assignable(R, C, r, c) == (r = R \/ r = 1) /\ (c = C \/ c = 1)

\* transformCentered * frequencyFilter, shapes already checked equal or 1
maskedTransform(transformCentered, frequencyFilter, R, C) ==
    [p \in Pix(R, C) |->
        LET m == frequencyFilter.val[<<IF frequencyFilter.rows = 1 THEN 0 ELSE p[1],
                                       IF frequencyFilter.cols = 1 THEN 0 ELSE p[2]>>]
        IN CMul(transformCentered[p], <<m, 0>>)]

\* numpy.fft.ifft2(filteredUncentered) for one band: complex numerators
\* over rows * columns
inverseOfBand(im, frequencyFilter, band) ==
    LET R == dimensions(im)[1]
        C == dimensions(im)[2]
        slice == [p \in Pix(R, C) |-> <<im.pix[<<p, band>>], 0>>]
        imTransform == fft2(slice, R, C)
        transformCentered == fftshift(imTransform, R, C)
        filteredTransform == maskedTransform(transformCentered, frequencyFilter, R, C)
        filteredUncentered == ifftshift(filteredTransform, R, C)
    IN ifft2(filteredUncentered, R, C)

\* filteredImage[:,:,band] = <complex array>: filteredImage is a float64
\* array, so the store keeps the real part and drops the imaginary part.
storeInFloatArray(z) == <<z[1], 0>>

Failed(e) == [kind |-> "error", value |-> e]
Filtered(a) == [kind |-> "image", value |-> a]

\* (mutant) the bias added inside the loop, once per band processed
frequency_filter_biasPerBand(im, frequencyFilter, delta) ==
    LET imRows == dimensions(im)[1]
        imColumns == dimensions(im)[2]
        imBands == dimensions(im)[3]
        r == frequencyFilter.rows
        c == frequencyFilter.cols
    IN IF ~Broadcastable(imRows, imColumns, r, c) THEN Failed("ValueError")
       ELSE IF ~Assignable(imRows, imColumns, Max(imRows, r), Max(imColumns, c))
       THEN Failed("ValueError")
       ELSE Filtered(
            [x \in Pix(imRows, imColumns) \X (0 .. imBands - 1) |->
                LET z == storeInFloatArray(
                            inverseOfBand(im, frequencyFilter, x[2])[x[1]])
                IN [re |-> Q(z[1] + (imBands - x[2]) * delta * imRows * imColumns,
                             imRows * imColumns),
                    im |-> Q(z[2], imRows * imColumns)]])

frequency_filter(im, frequencyFilter, delta) ==
    LET imRows == dimensions(im)[1]
        imColumns == dimensions(im)[2]
        imBands == dimensions(im)[3]
        r == frequencyFilter.rows
        c == frequencyFilter.cols
    IN IF ~Broadcastable(imRows, imColumns, r, c) THEN Failed("ValueError")
       ELSE IF ~Assignable(imRows, imColumns, Max(imRows, r), Max(imColumns, c))
       THEN Failed("ValueError")
       ELSE Filtered(
            [x \in Pix(imRows, imColumns) \X (0 .. imBands - 1) |->
                LET z == storeInFloatArray(
                            inverseOfBand(im, frequencyFilter, x[2])[x[1]])
                IN [re |-> Q(z[1] + delta * imRows * imColumns, imRows * imColumns),
                    im |-> Q(z[2], imRows * imColumns)]])

\* ------------------------------------------------------------ the caller
Image(R, C, B) == [rows |-> R, cols |-> C, bands |-> B]
Extents(n) == {Image(R, C, 1) : R \in 1 .. n, C \in 1 .. n}
Params == 0 .. MaxParam
\* the order is read by the Butterworth branch only
ShapeOrders == {<<IPCV_IDEAL, 1>>, <<IPCV_GAUSSIAN, 1>>}
                 \cup {<<IPCV_BUTTERWORTH, n>> : n \in 1 .. MaxOrder}
\* notch lists of zero, one or two entries, of equal or different lengths
NotchLengths == 0 .. 2
ListsOf(S) == UNION {[1 .. k -> S] : k \in NotchLengths}
NotchCenters == ListsOf((0 .. MaxOffset) \X (0 .. MaxOffset))
NotchRadii == ListsOf(0 .. MaxRadius)

CutoffCall(op) ==
    \E im \in Extents(MaxDim), c \in Params, so \in ShapeOrders :
        call = [op |-> op, im |-> im, cutoff |-> c, order |-> so[2], shape |-> so[1]]
BandCall(op) ==
    \E im \in Extents(MaxDim), c \in Params, w \in Params, so \in ShapeOrders :
        call = [op |-> op, im |-> im, center |-> c, width |-> w,
                order |-> so[2], shape |-> so[1]]
NotchCall(op) ==
    \E im \in Extents(MaxNotchDim), cs \in NotchCenters, rs \in NotchRadii,
       so \in ShapeOrders :
        call = [op |-> op, im |-> im, centers |-> cs, radii |-> rs,
                order |-> so[2], shape |-> so[1]]

Pending == [kind |-> "none"]

\* The caller has chosen a constructor and its arguments; nothing has run.
Init ==
    /\ \/ CutoffCall("lowpass") \/ CutoffCall("highpass")
       \/ BandCall("bandreject") \/ BandCall("bandpass")
       \/ NotchCall("notchreject") \/ NotchCall("notchpass")
    /\ ret = Pending

CallLowpass ==
    /\ call.op = "lowpass" /\ ret = Pending
    /\ ret' = Returned(filter_lowpass(call.im, call.cutoff, call.order, call.shape))
    /\ UNCHANGED call

CallHighpass ==
    /\ call.op = "highpass" /\ ret = Pending
    /\ ret' = Returned(filter_highpass(call.im, call.cutoff, call.order, call.shape))
    /\ UNCHANGED call

CallBandreject ==
    /\ call.op = "bandreject" /\ ret = Pending
    /\ ret' = Returned(filter_bandreject(call.im, call.center, call.width,
                                         call.order, call.shape))
    /\ UNCHANGED call

CallBandpass ==
    /\ call.op = "bandpass" /\ ret = Pending
    /\ ret' = Returned(filter_bandpass(call.im, call.center, call.width,
                                       call.order, call.shape))
    /\ UNCHANGED call

CallNotchreject ==
    /\ call.op = "notchreject" /\ ret = Pending
    /\ ret' = filter_notchreject(call.im, call.centers, call.radii,
                                 call.order, call.shape)
    /\ UNCHANGED call

CallNotchpass ==
    /\ call.op = "notchpass" /\ ret = Pending
    /\ ret' = filter_notchpass(call.im, call.centers, call.radii,
                               call.order, call.shape)
    /\ UNCHANGED call

Next ==
    \/ CallLowpass
    \/ CallHighpass
    \/ CallBandreject
    \/ CallBandpass
    \/ CallNotchreject
    \/ CallNotchpass

Spec == Init /\ [][Next]_vars

\* The caller of frequency_filter: an image of integer samples, a mask
\* array of its own choosing and a bias.
FFTDims == {1, 2, 4}
FFTExtents == {e \in FFTDims \X FFTDims : e[1] * e[2] <= 4}
\* a band is blank or holds one unit sample
Bands(R, C) ==
    {[p \in Pix(R, C) |-> 0]}
      \cup {[p \in Pix(R, C) |-> IF p = q THEN 1 ELSE 0] : q \in Pix(R, C)}
PixelImage(e, bs) ==
    [rows |-> e[1], cols |-> e[2], bands |-> Len(bs),
     pix |-> [x \in Pix(e[1], e[2]) \X (0 .. Len(bs) - 1) |-> bs[x[2] + 1][x[1]]]]
MaskArray(e, v) == [rows |-> e[1], cols |-> e[2], val |-> v]

InitFF ==
    /\ \E e \in FFTExtents, B \in 1 .. MaxBands, f \in FFTExtents, d \in 0 .. MaxDelta :
         \E bs \in [1 .. B -> Bands(e[1], e[2])], v \in [Pix(f[1], f[2]) -> 0 .. 1] :
            call = [op |-> "frequency_filter", im |-> PixelImage(e, bs),
                    mask |-> MaskArray(f, v), delta |-> d]
    /\ ret = Pending

CallFrequencyFilter ==
    /\ call.op = "frequency_filter" /\ ret = Pending
    /\ ret' = frequency_filter(call.im, call.mask, call.delta)
    /\ UNCHANGED call

NextFF == CallFrequencyFilter

SpecFF == InitFF /\ [][NextFF]_vars

\* The caller that builds an Ideal lowpass mask for its image and then hands
\* that mask to frequency_filter.
NoMask == [rows |-> 0, cols |-> 0, val |-> <<>>]
\* the array filter_lowpass returned, as frequency_filter receives it: an
\* Ideal mask holds 0.0 and 1.0 only
AsMaskArray(im, m) ==
    [rows |-> dimensions(im)[1], cols |-> dimensions(im)[2],
     val |-> [p \in DOMAIN m |-> m[p].n]]

InitChain ==
    /\ \E e \in FFTExtents, B \in 1 .. MaxBands, c \in 0 .. MaxParam + 1,
          d \in 0 .. MaxDelta :
         \E bs \in [1 .. B -> Bands(e[1], e[2])] :
            call = [op |-> "lowpass_then_filter", im |-> PixelImage(e, bs),
                    cutoff |-> c, order |-> 1, shape |-> IPCV_IDEAL,
                    mask |-> NoMask, delta |-> d]
    /\ ret = Pending

ChainLowpass ==
    /\ call.op = "lowpass_then_filter" /\ call.mask.rows = 0
    /\ call' = [call EXCEPT !.mask =
                   AsMaskArray(call.im,
                       filter_lowpass(call.im, call.cutoff, call.order, call.shape))]
    /\ UNCHANGED ret

ChainFrequencyFilter ==
    /\ call.op = "lowpass_then_filter" /\ call.mask.rows # 0 /\ ret = Pending
    /\ ret' = frequency_filter(call.im, call.mask, call.delta)
    /\ UNCHANGED call

NextChain ==
    \/ ChainLowpass
    \/ ChainFrequencyFilter

SpecChain == InitChain /\ [][NextChain]_vars

\* A caller that keeps its arrays and calls the seven operations one after
\* another.  ret holds the storage: the caller's image, mask and notch lists
\* as they stand now, and the arrays returned so far, each with the number
\* of the allocation it lives in.
CallNumbers == 1 .. 2

\* (mutant) every result is written into one buffer kept between calls
Allocated_reused(results) == 1
\* numpy.zeros, numpy.ones, numpy.roll, 1 - a, a * b and a.astype(...) each
\* create a new array: the result lives in an allocation of its own.
Allocated(results) == Len(results) + 1

Session(im, frequencyFilter, notchCenter, notchRadius, results) ==
    [kind |-> "session", im |-> im, mask |-> frequencyFilter,
     centers |-> notchCenter, radii |-> notchRadius, results |-> results]
\* The storage after the operation op has returned value: no operation
\* assigns into im, frequencyFilter, notchCenter or notchRadius.
Stored(op, value) ==
    Session(ret.im, ret.mask, ret.centers, ret.radii,
            Append(ret.results,
                   [op |-> op, store |-> Allocated(ret.results), value |-> value]))
CanCall == call.op = "session" /\ Len(ret.results) + 1 \in CallNumbers

InitSession ==
    /\ \E e \in FFTExtents, c \in 1 .. MaxParam, o \in 0 .. MaxOffset,
          so \in ShapeOrders, m \in 0 .. 1 :
         \E band \in Bands(e[1], e[2]) :
            call = [op |-> "session", im |-> PixelImage(e, <<band>>),
                    mask |-> MaskArray(e, [p \in Pix(e[1], e[2]) |-> m]),
                    centers |-> <<(<<o, o>>)>>, radii |-> <<c>>,
                    cutoff |-> c, center |-> c, width |-> c,
                    order |-> so[2], shape |-> so[1], delta |-> m]
    /\ ret = Session(call.im, call.mask, call.centers, call.radii, <<>>)

SessionLowpass ==
    /\ CanCall
    /\ ret' = Stored("lowpass",
          Returned(filter_lowpass(ret.im, call.cutoff, call.order, call.shape)))
    /\ UNCHANGED call

SessionHighpass ==
    /\ CanCall
    /\ ret' = Stored("highpass",
          Returned(filter_highpass(ret.im, call.cutoff, call.order, call.shape)))
    /\ UNCHANGED call

SessionBandreject ==
    /\ CanCall
    /\ ret' = Stored("bandreject",
          Returned(filter_bandreject(ret.im, call.center, call.width,
                                     call.order, call.shape)))
    /\ UNCHANGED call

SessionBandpass ==
    /\ CanCall
    /\ ret' = Stored("bandpass",
          Returned(filter_bandpass(ret.im, call.center, call.width,
                                   call.order, call.shape)))
    /\ UNCHANGED call

SessionNotchreject ==
    /\ CanCall
    /\ ret' = Stored("notchreject",
          filter_notchreject(ret.im, ret.centers, ret.radii,
                             call.order, call.shape))
    /\ UNCHANGED call

SessionNotchpass ==
    /\ CanCall
    /\ ret' = Stored("notchpass",
          filter_notchpass(ret.im, ret.centers, ret.radii,
                           call.order, call.shape))
    /\ UNCHANGED call

SessionFrequencyFilter ==
    /\ CanCall
    /\ ret' = Stored("frequency_filter",
          frequency_filter(ret.im, ret.mask, call.delta))
    /\ UNCHANGED call

NextSession ==
    \/ SessionLowpass
    \/ SessionHighpass
    \/ SessionBandreject
    \/ SessionBandpass
    \/ SessionNotchreject
    \/ SessionNotchpass
    \/ SessionFrequencyFilter

SpecSession == InitSession /\ [][NextSession]_vars

\* ============================================================ the claims
\* What the claims speak of: the index of the grid center, and the periodic
\* (wrapped) squared distance between two indices of an R x C grid.
CenterIndex(R, C) == <<R \div 2, C \div 2>>
WrapOff(i, j, n) == Min((i - j) % n, (j - i) % n)
WrappedDist2(p, q, R, C) ==
    WrapOff(p[1], q[1], R) * WrapOff(p[1], q[1], R)
      + WrapOff(p[2], q[2], C) * WrapOff(p[2], q[2], C)
Rows == call.im.rows
Cols == call.im.cols
IsIdealMask == ret.kind = "mask" /\ call.shape = IPCV_IDEAL

\* x + y == 1 as numbers: false when either is NaN or infinite
SumIsOne(x, y) ==
    IF x.t = "q" /\ y.t = "q" THEN x.n * y.d + y.n * x.d = x.d * y.d
    ELSE x.t = "sym" /\ y.t = "sym" /\ (y.e = <<2>> \o x.e \/ x.e = <<2>> \o y.e)

\* The mask of the family that a pass family complements, same arguments.
RejectOf ==
    IF call.op = "highpass"
    THEN Returned(filter_lowpass(call.im, call.cutoff, call.order, call.shape))
    ELSE IF call.op = "bandpass"
    THEN Returned(filter_bandreject(call.im, call.center, call.width,
                                    call.order, call.shape))
    ELSE filter_notchreject(call.im, call.centers, call.radii, call.order, call.shape)

\* C1: for every extent, shape and parameter combination the mask of
\* highpass, bandpass and notchpass and the mask of lowpass, bandreject and
\* notchreject for the same arguments sum to exactly 1 at every pixel.
C1_ComplementIdentities ==
    (ret.kind = "mask" /\ call.op \in {"highpass", "bandpass", "notchpass"}) =>
        /\ RejectOf.kind = "mask"
        /\ \A p \in Pix(Rows, Cols) : SumIsOne(RejectOf.value[p], ret.value[p])

\* C2: the Ideal lowpass mask is 1 at exactly the pixels whose wrapped
\* distance from (rows/2, columns/2) is <= cutoff and 0 at every other
\* pixel; the 4x4, cutoff 1 mask is the one the specification prints.
Lowpass4x4 ==
    <<<<0, 0, 0, 0>>, <<0, 0, 1, 0>>, <<0, 1, 1, 1>>, <<0, 0, 1, 0>>>>
C3_CenteredMinimum ==
    (ret.kind = "mask" /\ call.op \in {"lowpass", "bandreject"}) =>
        LET distFilter == centeredDist(Rows, Cols)
        IN /\ distFilter[CenterIndex(Rows, Cols)] = 0
           /\ \A p \in Pix(Rows, Cols) :
                 /\ distFilter[p] >= distFilter[CenterIndex(Rows, Cols)]
                 /\ distFilter[p] = 0 => p = CenterIndex(Rows, Cols)
C3_Witness ==
    /\ ret.kind = "mask" /\ call.op = "bandreject"
    /\ Rows = 3 /\ Cols = 4
    /\ centeredDist(Rows, Cols)[<<1, 2>>] = 0

\* C4: every element of a mask built with shape Ideal, by any of the six
\* constructors and for any number of notches, is exactly 0 or exactly 1.
C4_IdealBinary ==
    IsIdealMask => \A p \in Pix(Rows, Cols) : ret.value[p] \in {Zero, One}
C4_Witness ==
    /\ IsIdealMask /\ call.op = "notchpass"
    /\ Len(call.centers) = 2 /\ Len(call.radii) = 2
    /\ \E p, q \in Pix(Rows, Cols) : ret.value[p] = Zero /\ ret.value[q] = One

\* C5: the Ideal bandreject mask is 0 at exactly the pixels whose distance
\* d from the center has center <= d <= center + width, and 1 elsewhere.
C5_IdealBandreject ==
    (IsIdealMask /\ call.op = "bandreject") =>
        \A p \in Pix(Rows, Cols) :
           LET d2 == WrappedDist2(p, CenterIndex(Rows, Cols), Rows, Cols)
               lo == call.center
               hi == call.center + call.width
           IN ret.value[p] =
                 IF lo * lo <= d2 /\ d2 <= hi * hi THEN Zero ELSE One
C5_Witness ==
    /\ IsIdealMask /\ call.op = "bandreject"
    /\ call.center = 1 /\ call.width = 1 /\ Rows = 4 /\ Cols = 4
    /\ ret.value[<<2, 2>>] = One /\ ret.value[<<2, 3>>] = Zero
    /\ ret.value[<<2, 0>>] = Zero /\ ret.value[<<0, 0>>] = One

\* C6: Ideal notchreject with the single notch (0, 0) and a positive radius
\* returns a mask that is 0 at the DC pixel (rows/2, columns/2) and 1 at
\* every other pixel.  "Every other pixel" is read here in the claim's
\* favour, as every pixel farther than the radius from the DC pixel.
C6_SingleDCNotch ==
    (IsIdealMask /\ call.op = "notchreject"
       /\ call.centers = <<(<<0, 0>>)>> /\ Len(call.radii) = 1
       /\ call.radii[1] > 0) =>
        /\ ret.value[CenterIndex(Rows, Cols)] = Zero
        /\ \A p \in Pix(Rows, Cols) :
              WrappedDist2(p, CenterIndex(Rows, Cols), Rows, Cols)
                 > call.radii[1] * call.radii[1] => ret.value[p] = One

\* C7: Ideal notchreject zeroes exactly the pixels within the notch radius
\* of center + (v, u) or of center - (v, u), center being (rows/2, columns/2).
NotchSite(ctr, sgn) ==
    <<Rows \div 2 + sgn * ctr[2], Cols \div 2 + sgn * ctr[1]>>
InNotch(p, ctr, radius) ==
    \/ WrappedDist2(p, NotchSite(ctr, 1), Rows, Cols) <= radius * radius
    \/ WrappedDist2(p, NotchSite(ctr, 0 - 1), Rows, Cols) <= radius * radius
C7_NotchSitesCentered ==
    (IsIdealMask /\ call.op = "notchreject"
       /\ Len(call.centers) = Len(call.radii)) =>
        \A p \in Pix(Rows, Cols) :
           ret.value[p] =
              IF \E k \in 1 .. Len(call.centers) :
                    InNotch(p, call.centers[k], call.radii[k])
              THEN Zero ELSE One

\* C8: a notch constructor called with len(centers) # len(radii) fails and
\* returns no mask.
C8_LengthMismatchFails ==
    (call.op \in {"notchreject", "notchpass"} /\ ret # Pending
       /\ Len(call.centers) # Len(call.radii)) =>
        ret.kind = "error"

\* C9: frequency_filter returns, for every band, the full complex result of
\* the inverse transform plus the bias: the imaginary part is kept.
C9_ImaginaryKept ==
    (call.op = "frequency_filter" /\ ret.kind = "image") =>
        \A x \in DOMAIN ret.value :
           LET n == call.im.rows * call.im.cols
               z == inverseOfBand(call.im, call.mask, x[2])[x[1]]
           IN /\ ret.value[x].re = Q(z[1] + call.delta * n, n)
              /\ ret.value[x].im = Q(z[2], n)

\* C10: frequency_filter fails, and returns no filtered image, whenever the
\* mask's rows x columns extent differs from the image's.
C10_ShapeMismatchFails ==
    (call.op = "frequency_filter" /\ ret # Pending
       /\ <<call.mask.rows, call.mask.cols>> # <<call.im.rows, call.im.cols>>) =>
        ret.kind = "error"

\* C11: a constructor called with a cutoff, center, width or radius that is
\* zero or negative (or, for Butterworth, an order that is not positive)
\* fails and returns no mask.
NonPositiveParameter ==
    \/ call.op \in {"lowpass", "highpass"} /\ call.cutoff <= 0
    \/ call.op \in {"bandreject", "bandpass"}
         /\ (call.center <= 0 \/ call.width <= 0)
    \/ call.op \in {"notchreject", "notchpass"}
         /\ \E k \in 1 .. Len(call.radii) : call.radii[k] <= 0
    \/ call.shape = IPCV_BUTTERWORTH /\ call.order <= 0
C11_NonPositiveRejected ==
    (ret # Pending /\ NonPositiveParameter) => ret.kind = "error"

\* C12: when the cutoff exceeds every distance of the centered grid, Ideal
\* filter_lowpass returns the all-ones mask, and frequency_filter with that
\* mask and bias 0 returns the original image in every band.
CutoffExceedsGrid ==
    \A p \in Pix(Rows, Cols) :
        centeredDist(Rows, Cols)[p] < call.cutoff * call.cutoff
C12_LargeCutoffIdentity ==
    (call.op = "lowpass_then_filter" /\ call.mask.rows # 0 /\ CutoffExceedsGrid) =>
        /\ call.mask.rows = Rows /\ call.mask.cols = Cols
        /\ \A p \in Pix(Rows, Cols) : call.mask.val[p] = 1
        /\ (ret # Pending /\ call.delta = 0) =>
              /\ ret.kind = "image"
              /\ \A x \in DOMAIN ret.value :
                    /\ ret.value[x].re = Int2X(call.im.pix[x])
                    /\ ret.value[x].im = Zero
C12_Witness ==
    /\ call.op = "lowpass_then_filter" /\ call.mask.rows # 0 /\ CutoffExceedsGrid
    /\ ret.kind = "image" /\ call.delta = 0
    /\ Rows = 1 /\ Cols = 4 /\ call.im.bands = 2
    /\ call.im.pix[<<(<<0, 1>>), 0>>] = 1 /\ ret.value[<<(<<0, 1>>), 0>>].re = One
    /\ call.im.pix[<<(<<0, 3>>), 1>>] = 1 /\ ret.value[<<(<<0, 3>>), 1>>].re = One

\* x < y for two rationals; false when either is not a rational
XLess(x, y) == x.t = "q" /\ y.t = "q" /\ x.n * y.d < y.n * x.d

OnlyBand(im, b) ==
    [im EXCEPT !.bands = 1,
               !.pix = [x \in Pix(im.rows, im.cols) \X {0} |-> im.pix[<<x[1], b>>]]]
ReversedBands(im) ==
    [im EXCEPT !.pix = [x \in DOMAIN im.pix |->
                           im.pix[<<x[1], im.bands - 1 - x[2]>>]]]
\* x - y = k for two rationals
DiffIs(x, y, k) == x.n * y.d - y.n * x.d = k * x.d * y.d

\* C14: output band b of frequency_filter depends on input band b, the mask
\* and the bias only: it is what frequency_filter returns for the image made
\* of band b alone, whatever the other bands hold; handing the bands over in
\* reverse order reverses the output bands and nothing else; and the output
\* exceeds the output for bias 0 by exactly the bias at every element of
\* every band.
C14_BandsIndependent ==
    (call.op = "frequency_filter" /\ ret.kind = "image") =>
        /\ \A b \in 0 .. call.im.bands - 1 :
              LET alone == frequency_filter(OnlyBand(call.im, b), call.mask,
                                            call.delta)
              IN /\ alone.kind = "image"
                 /\ \A p \in Pix(Rows, Cols) :
                       alone.value[<<p, 0>>] = ret.value[<<p, b>>]
        /\ LET rev == frequency_filter(ReversedBands(call.im), call.mask, call.delta)
           IN /\ rev.kind = "image"
              /\ \A x \in DOMAIN ret.value :
                    rev.value[<<x[1], call.im.bands - 1 - x[2]>>] = ret.value[x]
        /\ LET plain == frequency_filter(call.im, call.mask, 0)
           IN /\ plain.kind = "image"
              /\ \A x \in DOMAIN ret.value :
                    /\ DiffIs(ret.value[x].re, plain.value[x].re, call.delta)
                    /\ ret.value[x].im = plain.value[x].im
C14_Witness ==
    /\ call.op = "frequency_filter" /\ ret.kind = "image"
    /\ call.im.bands = 2 /\ call.delta = 1 /\ Rows = 2 /\ Cols = 2
    /\ call.im.pix[<<(<<0, 0>>), 0>>] = 1 /\ call.im.pix[<<(<<1, 1>>), 1>>] = 1
    /\ call.mask.rows = 2 /\ call.mask.cols = 2
    /\ \A p \in Pix(2, 2) : call.mask.val[p] = 1
    /\ ret.value[<<(<<0, 0>>), 0>>].re = Int2X(2)
    /\ ret.value[<<(<<0, 0>>), 1>>].re = One
    /\ ret.value[<<(<<1, 1>>), 1>>].re = Int2X(2)

\* C15: with positive parameters, no Butterworth or Gaussian branch of
\* filter_bandreject or filter_notchreject divides by zero (a zero
\* denominator has been replaced by a small positive number before the
\* division), and every returned weight is a finite number.
PositiveParameters ==
    /\ call.op = "bandreject" => call.center > 0 /\ call.width > 0
    /\ call.op = "notchreject" =>
          /\ Len(call.centers) = Len(call.radii)
          /\ \A k \in 1 .. Len(call.radii) : call.radii[k] > 0
    /\ call.order > 0
C15_NoZeroDenominator ==
    (ret.kind = "mask" /\ call.op \in {"bandreject", "notchreject"}
       /\ call.shape # IPCV_IDEAL /\ PositiveParameters) =>
        /\ call.op = "bandreject" =>
              \A p \in Pix(Rows, Cols) :
                 bandrejectDenominator2(centeredDist(Rows, Cols)[p], call.center,
                                        call.width, call.shape) # 0
        /\ (call.op = "notchreject" /\ call.shape = IPCV_BUTTERWORTH) =>
              \A k \in 1 .. Len(call.centers), p \in Pix(Rows, Cols) :
                 LET D1 == notchD1(centeredDist(Rows, Cols), Rows, Cols, call.centers[k])
                     D2 == notchD2(centeredDist(Rows, Cols), Rows, Cols, call.centers[k])
                 IN productOfDs(D1[p] * D2[p]) # 0
        /\ \A p \in Pix(Rows, Cols) : IsFinite(ret.value[p])

====
